---- MODULE Spec2Model ----
(***************************************************************************)
(* A model of the Christmas_Tree greeting card: the timeline sequencer     *)
(* (src/src/hooks/useTimeline.ts, useTimeline), the webcam gesture loop    *)
(* (src/unnamed/part_001, recognizeGesture and predictWebcam) and the      *)
(* share storage functions (src/src/hooks/useTimeline.ts, uploadShare,     *)
(* getShare, updateShare).                                                 *)
(*                                                                         *)
(* Times of the timeline are in milliseconds.  A progress value p of the   *)
(* code (a number in [0, 1]) is held as the integer percentage             *)
(* floor(100 * p), so "progress >= 1" of the code is "progress = 100".     *)
(***************************************************************************)
EXTENDS Integers, Sequences, FiniteSets, TLC

VARIABLES
    \* ---- useTimeline: props
    config,           \* TimelineConfig: [enabled, autoPlay, loop, steps]
    totalPhotos,      \* number of photos of the share
    numTexts,         \* configuredTexts.length
    \* ---- useTimeline: hook state
    mounted,          \* the effects of the first render have run
    state,            \* TimelineState
    timerRef,         \* "null" | "pending" | "fired"   (setTimeout handle)
    progressRef,      \* "null" | "active"              (setInterval handle)
    elapsed,          \* Date.now() - startTime as last read by the interval
    photoCounterRef,  \* photoCounterRef.current
    photoIndex,       \* photoIndex returned by the last render
    heartPhotoIndex,  \* heartPhotoIndex returned by the last render
    tlEvents,         \* callbacks the last timeline handler invoked
    \* ---- GestureController: refs and the last frame
    handPresent,          \* results.landmarks.length > 0 in the last frame
    hand,                 \* the pose of the hand in the last frame; its
                          \* landmarks, results.landmarks[0], are HandOf(hand)
    gesture,              \* gesture recognizeGesture returned in that frame
    confidence,           \* its confidence, in percent
    lastGestureRef,
    gestureHoldCountRef,
    pinchCooldownRef,
    lastPalmPosRef,       \* {} for null, else {palmCenter}
    gEvents,              \* callbacks the last frame invoked
    \* ---- sharing: the Supabase project and the browser
    supabaseConfigured,   \* supabaseUrl and supabaseAnonKey are set
    now,                  \* Date.now(), in days
    shares,               \* the table "shares": id -> row
    localShare,           \* localStorage[LOCAL_SHARE_KEY]: {} or {info}
    uploaded,             \* paths the last call stored in the bucket
    call,                 \* the last call: [op, shareId, editToken, at]
    result,               \* what it returned: [success, error, data]
    \* ---- a caller of the voice helpers
    voiceConfig,          \* the config object it passes in
    voiceExtracted,       \* {} or {what extractVoiceDataFromConfig returned}
    voiceRestored,        \* {} or {what restoreVoiceDataToConfig returned}
    \* ---- the particle components of the scene
    sceneState,           \* "FORMED" or "CHAOS": the state prop
    speed,                \* the speed prop, in tenths
    easing,               \* the easing prop
    delta,                \* the delta of the last frame, in ms
    uProgress,            \* Foliage: materialRef.current.uProgress
    ribbonProgress,       \* SpiralRibbon: progressRef.current
    lightsProgress,       \* FairyLights: progressRef.current
    directionRef,         \* FairyLights: directionRef.current
    foliageT,             \* Foliage: gather delay -> t of the shader
    lightsT               \* FairyLights: gather delay -> elementT

tlVars == <<config, totalPhotos, numTexts, mounted, state, timerRef,
            progressRef, elapsed, photoCounterRef, photoIndex,
            heartPhotoIndex, tlEvents>>

gVars == <<handPresent, hand, gesture, confidence, lastGestureRef,
           gestureHoldCountRef, pinchCooldownRef, lastPalmPosRef, gEvents>>

shVars == <<supabaseConfigured, now, shares, localShare, uploaded, call, result>>

vcVars == <<voiceConfig, voiceExtracted, voiceRestored>>

ptVars == <<sceneState, speed, easing, delta, uProgress, ribbonProgress,
            lightsProgress, directionRef, foliageT, lightsT>>

vars == <<tlVars, gVars, shVars, vcVars, ptVars>>

Min(a, b) == IF a < b THEN a ELSE b
Max(a, b) == IF a > b THEN a ELSE b

(***************************************************************************)
(* Bounds of the model.                                                    *)
(***************************************************************************)
MaxSteps == 2
MaxPhotos == 2
MaxTexts == 2
MaxHold == 3
MaxClock == 35
MaxVoiceSteps == 2

(***************************************************************************)
(* TimelineEditor.tsx: the steps the editor creates.                       *)
(***************************************************************************)
createDefaultStep(type) ==
    LET base == [type |-> type, duration |-> 3000, delay |-> 0,
                 showPhoto |-> FALSE, photoIndex |-> -1]
    IN CASE type = "intro" -> base
         [] type = "photo" -> [base EXCEPT !.photoIndex = -1]
         [] type = "heart" -> [base EXCEPT !.duration = 4000,
                                           !.showPhoto = TRUE,
                                           !.photoIndex = -1]
         [] type = "text"  -> base
         [] type = "tree"  -> [base EXCEPT !.duration = 2000]

STEP_TYPES == {"intro", "photo", "heart", "text", "tree"}

\* The <select> of a photo step: "照片 1" (value 0) instead of -1.
updateStepPhotoIndex(step, value) == [step EXCEPT !.photoIndex = value]

StepPool ==
    {createDefaultStep(t) : t \in STEP_TYPES}
        \cup {updateStepPhotoIndex(createDefaultStep("photo"), 0)}

RECURSIVE SeqsUpTo(_, _)
SeqsUpTo(S, n) ==
    IF n = 0 THEN {<<>>}
    ELSE LET shorter == SeqsUpTo(S, n - 1)
         IN shorter \cup {Append(s, x) : s \in {t \in shorter : Len(t) = n - 1}, x \in S}

Configs ==
    [enabled : BOOLEAN, autoPlay : BOOLEAN, loop : BOOLEAN,
     steps : SeqsUpTo(StepPool, MaxSteps)]

(***************************************************************************)
(* useTimeline.ts: helpers of the hook.                                    *)
(***************************************************************************)
\* currentStep: null of the code is the step record of type "null"
NullStep ==
    [type |-> "null", duration |-> 0, delay |-> 0, showPhoto |-> FALSE,
     photoIndex |-> -1]

InitialState ==
    [isPlaying |-> FALSE, currentStepIndex |-> -1, currentStep |-> NullStep,
     progress |-> 0]

\* steps[index] with the 0-based index of the code
StepAt(index) == config.steps[index + 1]

\* getPhotoIndex: TRUE when the call takes the automatic branch
isAutoIndex(requestedIndex) ==
    ~(requestedIndex >= 0 /\ requestedIndex < totalPhotos)

\* getPhotoIndex: the value returned with the counter at `counter`
getPhotoIndex(requestedIndex, counter) ==
    IF isAutoIndex(requestedIndex)
    THEN counter % Max(1, totalPhotos)
    ELSE requestedIndex

photoInterval == 3000
textSwitchInterval == 3000

getStepDuration(step) ==
    IF step.type = "heart" /\ step.showPhoto /\ totalPhotos > 0
    THEN LET gatherTime == 2000
             slideTime == 600
             lastPhotoExtraTime == 1000
             calculatedDuration ==
                 gatherTime + (totalPhotos * photoInterval)
                   + ((totalPhotos - 1) * slideTime) + lastPhotoExtraTime
         IN Max(step.duration, calculatedDuration)
    ELSE IF step.type = "text" /\ numTexts > 1
    THEN numTexts * textSwitchInterval
    ELSE step.duration

\* Math.min(1, elapsed / actualDuration), as a percentage
progressOf(e, actualDuration) == Min(100, (e * 100) \div actualDuration)


\* setInterval(..., 50); the callback may run late, so the time read by two
\* consecutive callbacks differs by one of these multiples of the period
IntervalMs == 50
TickStrides == {20, 50}
TickAdvances == {k * IntervalMs : k \in TickStrides}

(***************************************************************************)
(* The render that follows a state update (useTimeline.ts 210-227): it     *)
(* reads the new state, calls getPhotoIndex for a photo step or a heart    *)
(* step with showPhoto, and so advances photoCounterRef when that call     *)
(* takes the automatic branch.  `counter` is photoCounterRef.current when  *)
(* the render starts.  Updates made by one handler are batched into one    *)
(* render.                                                                 *)
(***************************************************************************)
render(counter) ==
    LET currentStep == state'.currentStep
        callsPhoto == currentStep.type = "photo"
        callsHeart == currentStep.type = "heart" /\ currentStep.showPhoto
        requested == currentStep.photoIndex
    IN /\ photoIndex' = IF callsPhoto THEN getPhotoIndex(requested, counter)
                         ELSE 0
       /\ heartPhotoIndex' = IF callsHeart
                              THEN {getPhotoIndex(requested, counter)}
                              ELSE {}
       /\ photoCounterRef' =
              IF (callsPhoto \/ callsHeart) /\ isAutoIndex(requested)
              THEN counter + 1 ELSE counter

\* a slip of nextIndex: one step too far
nextIndexSkipsOne(index) == index + 2

\* the index playStep is called with when a step that is not a tree ends
nextIndex(index) == index + 1

\* a slip of isEndStep: no step ends the storyline
isEndStepNever(step) == FALSE

\* the step type that ends the storyline when its progress reaches 1
isEndStep(step) == step.type = "tree"

\* playStep(index), the state update it queues and the timers it leaves;
\* `counter` is photoCounterRef.current at the call
playStep(index, counter) ==
    /\ progressRef' = "null"
    /\ IF index < 0 \/ index >= Len(config.steps)
       THEN /\ state' = InitialState
            /\ timerRef' = "null"
            /\ tlEvents' = {"onComplete"}
       ELSE /\ state' = [isPlaying |-> TRUE, currentStepIndex |-> index,
                         currentStep |-> StepAt(index), progress |-> 0]
            /\ timerRef' = "pending"
            /\ tlEvents' = {}
    /\ render(counter)

(***************************************************************************)
(* useTimeline.ts: the operations of the hook.                             *)
(***************************************************************************)
TimelineInit ==
    /\ config \in Configs
    /\ totalPhotos \in 0..MaxPhotos
    /\ numTexts \in 1..MaxTexts
    /\ mounted = FALSE
    /\ state = InitialState
    /\ timerRef = "null"
    /\ progressRef = "null"
    /\ elapsed = 0
    /\ photoCounterRef = 0
    /\ photoIndex = 0
    /\ heartPhotoIndex = {}
    /\ tlEvents = {}

\* the autoplay effect of the first render
Mount ==
    /\ ~mounted
    /\ mounted' = TRUE
    /\ IF config.enabled /\ config.autoPlay /\ Len(config.steps) > 0
       THEN /\ playStep(0, 0)
            /\ elapsed' = 0
       ELSE UNCHANGED <<state, timerRef, progressRef, elapsed,
                        photoCounterRef, photoIndex, heartPhotoIndex, tlEvents>>
    /\ UNCHANGED <<config, totalPhotos, numTexts>>

\* play(), called by the play button of SharePage while nothing is playing
play ==
    /\ mounted
    /\ ~state.isPlaying
    /\ Len(config.steps) > 0
    /\ playStep(0, 0)
    /\ elapsed' = 0
    /\ UNCHANGED <<config, totalPhotos, numTexts, mounted>>

\* the setTimeout callback of playStep: the delay of the step is over
TimeoutFires ==
    /\ timerRef = "pending"
    /\ timerRef' = "fired"
    /\ progressRef' = "active"
    /\ elapsed' = 0
    /\ tlEvents' = {}
    /\ UNCHANGED <<config, totalPhotos, numTexts, mounted, state,
                   photoCounterRef, photoIndex, heartPhotoIndex>>

\* the setInterval callback of playStep for the step `index`
IntervalTick ==
    /\ progressRef = "active"
    /\ \E dt \in TickAdvances :
         LET index == state.currentStepIndex
             step == state.currentStep
             progress == progressOf(elapsed + dt, getStepDuration(step))
         IN /\ elapsed' = elapsed + dt
            /\ IF progress >= 100
               THEN IF isEndStep(step)
                    THEN IF config.loop
                         THEN playStep(0, 0)
                         ELSE /\ state' = [state EXCEPT !.isPlaying = FALSE,
                                                        !.progress = 100]
                              /\ timerRef' = "null"
                              /\ progressRef' = "null"
                              /\ tlEvents' = {"onComplete"}
                              /\ render(photoCounterRef)
                    ELSE playStep(nextIndex(index), photoCounterRef)
               ELSE /\ state' = [state EXCEPT !.progress = progress]
                    /\ tlEvents' = {}
                    /\ render(photoCounterRef)
                    /\ UNCHANGED <<timerRef, progressRef>>
    /\ UNCHANGED <<config, totalPhotos, numTexts, mounted>>

TimelineNext ==
    \/ Mount /\ UNCHANGED <<gVars, shVars, vcVars, ptVars>>
    \/ play /\ UNCHANGED <<gVars, shVars, vcVars, ptVars>>
    \/ TimeoutFires /\ UNCHANGED <<gVars, shVars, vcVars, ptVars>>
    \/ IntervalTick /\ UNCHANGED <<gVars, shVars, vcVars, ptVars>>

(***************************************************************************)
(* part_001: hand landmarks and recognizeGesture.  Coordinates are in      *)
(* hundredths of the normalized image size, so 0.05 of the code is 5 and   *)
(* 0.08 is 8.  Distances are compared by their squares: for a, b >= 0,     *)
(* a > b * 0.95 is 10000 a^2 > 9025 b^2, and so on.                        *)
(***************************************************************************)
WRIST == 0
THUMB_MCP == 2
THUMB_IP == 3
THUMB_TIP == 4
INDEX_MCP == 5
INDEX_PIP == 6
INDEX_TIP == 8
MIDDLE_MCP == 9
MIDDLE_PIP == 10
MIDDLE_TIP == 12
RING_MCP == 13
RING_PIP == 14
RING_TIP == 16
PINKY_MCP == 17
PINKY_PIP == 18
PINKY_TIP == 20

Pt(x, y, z) == [x |-> x, y |-> y, z |-> z]

sq(n) == n * n

\* distance(a, b) squared
distance(a, b) == sq(a.x - b.x) + sq(a.y - b.y) + sq(a.z - b.z)

\* distance2D(a, b) squared
distance2D(a, b) == sq(a.x - b.x) + sq(a.y - b.y)

isFingerExtended(lm, tipIdx, pipIdx, mcpIdx) ==
    LET wrist == lm[WRIST]
        tipToWrist == distance(lm[tipIdx], wrist)
        pipToWrist == distance(lm[pipIdx], wrist)
        mcpToWrist == distance(lm[mcpIdx], wrist)
    IN /\ 10000 * tipToWrist > 9025 * pipToWrist
       /\ 100 * tipToWrist > 121 * mcpToWrist

isThumbExtended(lm) ==
    LET thumbToIndex == distance(lm[THUMB_TIP], lm[INDEX_MCP])
        thumbIpToIndex == distance(lm[THUMB_IP], lm[INDEX_MCP])
        thumbLength == distance(lm[THUMB_TIP], lm[THUMB_MCP])
        thumbIpToMcp == distance(lm[THUMB_IP], lm[THUMB_MCP])
    IN \/ 10000 * thumbToIndex > 11025 * thumbIpToIndex
       \/ 100 * thumbLength > 169 * thumbIpToMcp

indexExtendedOf(lm) == isFingerExtended(lm, INDEX_TIP, INDEX_PIP, INDEX_MCP)
middleExtendedOf(lm) == isFingerExtended(lm, MIDDLE_TIP, MIDDLE_PIP, MIDDLE_MCP)
ringExtendedOf(lm) == isFingerExtended(lm, RING_TIP, RING_PIP, RING_MCP)
pinkyExtendedOf(lm) == isFingerExtended(lm, PINKY_TIP, PINKY_PIP, PINKY_MCP)

count(flags) == Cardinality({i \in DOMAIN flags : flags[i]})

isPinchingOf(lm) ==
    /\ distance2D(lm[THUMB_TIP], lm[INDEX_TIP]) < sq(8)
    /\ (middleExtendedOf(lm) \/ ringExtendedOf(lm))

Result(g, c) == [gesture |-> g, confidence |-> c]

recognizeGesture(lm) ==
    LET thumbExtended == isThumbExtended(lm)
        indexExtended == indexExtendedOf(lm)
        middleExtended == middleExtendedOf(lm)
        ringExtended == ringExtendedOf(lm)
        pinkyExtended == pinkyExtendedOf(lm)
        extendedCount == count(<<thumbExtended, indexExtended, middleExtended,
                                 ringExtended, pinkyExtended>>)
        fingerCount == count(<<indexExtended, middleExtended, ringExtended,
                               pinkyExtended>>)
        thumbTip == lm[THUMB_TIP]
        wrist == lm[WRIST]
    IN IF isPinchingOf(lm) THEN Result("Pinch", 85)
       ELSE IF extendedCount >= 4 \/ (fingerCount >= 3 /\ thumbExtended)
       THEN Result("Open_Palm", 90)
       ELSE IF extendedCount <= 1 /\ ~indexExtended /\ ~middleExtended
       THEN Result("Closed_Fist", 90)
       ELSE IF thumbExtended /\ fingerCount <= 1 /\ thumbTip.y < wrist.y - 5
       THEN Result("Thumb_Up", 80)
       ELSE IF thumbExtended /\ fingerCount <= 1 /\ thumbTip.y > wrist.y + 5
       THEN Result("Thumb_Down", 80)
       ELSE IF indexExtended /\ ~middleExtended /\ ~ringExtended /\ ~pinkyExtended
       THEN Result("Pointing_Up", 80)
       ELSE IF indexExtended /\ middleExtended /\ ~ringExtended /\ ~pinkyExtended
       THEN Result("Victory", 85)
       ELSE IF thumbExtended /\ indexExtended /\ pinkyExtended /\ ~middleExtended
       THEN Result("ILoveYou", 80)
       ELSE IF indexExtended /\ pinkyExtended /\ ~middleExtended /\ ~ringExtended
       THEN Result("ILoveYou", 75)
       ELSE Result("None", 0)

(***************************************************************************)
(* The hands the detector reports, one per frame: an upright hand with the *)
(* wrist at (50, 80), each finger straight or curled, the index tip also   *)
(* bent towards the thumb, and the thumb up, sideways, down or folded.     *)
(* The open hand is at one of two horizontal offsets (a moving palm).      *)
(***************************************************************************)
ThumbPoses == {"up", "side", "down", "folded"}
IndexPoses == {"straight", "curled", "touch"}
FingerPoses == {"straight", "curled"}
HandOffsets == {0, 2}

HandPoses ==
    {h \in [thumb : ThumbPoses, index : IndexPoses, middle : FingerPoses,
            ring : FingerPoses, pinky : FingerPoses, dx : HandOffsets] :
        \/ h.dx = 0
        \/ /\ h.index = "straight" /\ h.middle = "straight"
           /\ h.ring = "straight" /\ h.pinky = "straight"}

\* the tip of a finger whose MCP joint is at (mx, my)
FingerTip(pose, mx, my) ==
    CASE pose = "straight" -> Pt(mx, my - 25, 0)
      [] pose = "curled"   -> Pt(mx, my + 5, 0)
      [] pose = "touch"    -> Pt(34, 50, 0)

ThumbJoints(pose) ==
    CASE pose = "up"     -> <<Pt(38, 65, 0), Pt(33, 57, 0), Pt(30, 48, 0)>>
      [] pose = "side"   -> <<Pt(38, 72, 0), Pt(30, 76, 0), Pt(22, 80, 0)>>
      [] pose = "down"   -> <<Pt(38, 75, 0), Pt(34, 83, 0), Pt(31, 92, 0)>>
      [] pose = "folded" -> <<Pt(38, 65, 0), Pt(40, 58, 0), Pt(43, 58, 0)>>

Shift(p, dx) == [p EXCEPT !.x = p.x + dx]

HandOf(h) ==
    LET t == ThumbJoints(h.thumb)
        at == [i \in 0..20 |->
                 CASE i = WRIST -> Pt(50, 80, 0)
                   [] i = 1 -> Pt(43, 72, 0)
                   [] i = THUMB_MCP -> t[1]
                   [] i = THUMB_IP -> t[2]
                   [] i = THUMB_TIP -> t[3]
                   [] i = INDEX_MCP -> Pt(45, 50, 0)
                   [] i = INDEX_PIP -> Pt(45, 40, 0)
                   [] i = 7 -> Pt(45, 33, 0)
                   [] i = INDEX_TIP -> FingerTip(h.index, 45, 50)
                   [] i = MIDDLE_MCP -> Pt(50, 48, 0)
                   [] i = MIDDLE_PIP -> Pt(50, 38, 0)
                   [] i = 11 -> Pt(50, 31, 0)
                   [] i = MIDDLE_TIP -> FingerTip(h.middle, 50, 48)
                   [] i = RING_MCP -> Pt(55, 50, 0)
                   [] i = RING_PIP -> Pt(55, 40, 0)
                   [] i = 15 -> Pt(55, 33, 0)
                   [] i = RING_TIP -> FingerTip(h.ring, 55, 50)
                   [] i = PINKY_MCP -> Pt(60, 54, 0)
                   [] i = PINKY_PIP -> Pt(60, 46, 0)
                   [] i = 19 -> Pt(60, 40, 0)
                   [] i = PINKY_TIP -> FingerTip(h.pinky, 60, 54)]
    IN [i \in 0..20 |-> Shift(at[i], h.dx)]

\* recognizeGesture on the landmarks of each of these hands, tabulated
GestureTable == {<<h, recognizeGesture(HandOf(h))>> : h \in HandPoses}
GestureOf(h) == (CHOOSE p \in GestureTable : p[1] = h)[2]

\* Between two consecutive frames a hand in the picture moves at most one
\* finger (or shifts); a hand entering the picture has any pose.
PoseFields == {"thumb", "index", "middle", "ring", "pinky", "dx"}
NextPoses(present, h) ==
    IF ~present THEN HandPoses
    ELSE {g \in HandPoses : Cardinality({f \in PoseFields : g[f] # h[f]}) <= 1}

\* the pose kept in the state while no hand is in the picture
NoHand ==
    [thumb |-> "folded", index |-> "curled", middle |-> "curled",
     ring |-> "curled", pinky |-> "curled", dx |-> 0]

(***************************************************************************)
(* part_001: predictWebcam, one call per animation frame once the model    *)
(* and the camera are ready.                                               *)
(***************************************************************************)
PINCH_COOLDOWN == 30

GestureInit ==
    /\ handPresent = FALSE
    /\ hand = NoHand
    /\ gesture = "None"
    /\ confidence = 0
    /\ lastGestureRef = "None"
    /\ gestureHoldCountRef = 0
    /\ pinchCooldownRef = 0
    /\ lastPalmPosRef = {}
    /\ gEvents = {}

\* pinchCooldownRef after "if (pinchCooldownRef.current > 0) pinchCooldownRef.current--"
cooledDown(c) == IF c > 0 THEN c - 1 ELSE c

\* gestureHoldCountRef after the stability bookkeeping of a frame
holdCountAfter(g, last, holdCount) == IF g = last THEN holdCount + 1 ELSE 0

\* isStable
isStableAt(holdCount) == holdCount >= 2

\* twice palmCenter (the code halves the sums)
palmCenter2(lm) ==
    [x |-> lm[WRIST].x + lm[MIDDLE_MCP].x, y |-> lm[WRIST].y + lm[MIDDLE_MCP].y]

\* Math.abs(deltaX) > 0.008 || Math.abs(deltaY) > 0.008, with
\* deltaX = (last.x - palm.x) * 4 and deltaY = (palm.y - last.y) * 3
palmMoved(last2, palm2) ==
    LET abs(n) == IF n < 0 THEN -n ELSE n
    IN \/ abs(last2.x - palm2.x) * 20 > 8
       \/ abs(palm2.y - last2.y) * 15 > 8

\* a frame in which the detector reports a hand, of pose h
predictWebcamHand ==
    \E h \in NextPoses(handPresent, hand) :
      LET lm == HandOf(h)
          cooldown == cooledDown(pinchCooldownRef)
          r == GestureOf(h)
          holdCount == holdCountAfter(r.gesture, lastGestureRef, gestureHoldCountRef)
          isStable == isStableAt(holdCount)
          handle == isStable /\ r.confidence > 60
          pinch == handle /\ r.gesture = "Pinch" /\ cooldown = 0
          palm == handle /\ r.gesture = "Open_Palm"
          palm2 == palmCenter2(lm)
          move == /\ palm
                  /\ lastPalmPosRef # {}
                  /\ \E last2 \in lastPalmPosRef : palmMoved(last2, palm2)
      IN /\ holdCount <= MaxHold
         /\ handPresent' = TRUE
         /\ hand' = h
         /\ gesture' = r.gesture
         /\ confidence' = r.confidence
         /\ lastGestureRef' = r.gesture
         /\ gestureHoldCountRef' = holdCount
         /\ pinchCooldownRef' = IF pinch THEN PINCH_COOLDOWN ELSE cooldown
         /\ lastPalmPosRef' = IF ~handle THEN lastPalmPosRef
                              ELSE IF palm THEN {palm2} ELSE {}
         /\ gEvents' = {"onMove"}
               \cup (IF pinch THEN {"onPinch"} ELSE {})
               \cup (IF palm THEN {"onPalmVertical"} ELSE {})
               \cup (IF move THEN {"onPalmMove"} ELSE {})
               \cup (IF handle /\ r.gesture # "Pinch" /\ r.gesture # "None"
                     THEN {"onGesture"} ELSE {})

\* a frame in which the detector reports no hand
predictWebcamNoHand ==
    /\ handPresent' = FALSE
    /\ hand' = NoHand
    /\ gesture' = "None"
    /\ confidence' = 0
    /\ pinchCooldownRef' = cooledDown(pinchCooldownRef)
    /\ lastPalmPosRef' = {}
    /\ lastGestureRef' = "None"
    /\ gestureHoldCountRef' = 0
    /\ gEvents' = {"onMove"}

GestureNext ==
    \/ predictWebcamHand /\ UNCHANGED <<tlVars, shVars, vcVars, ptVars>>
    \/ predictWebcamNoHand /\ UNCHANGED <<tlVars, shVars, vcVars, ptVars>>

(***************************************************************************)
(* useTimeline.ts 500-895: sharing.  A string of the code that holds a     *)
(* file is the record Str(kind, share, file, t, i):                        *)
(*   kind "data"      a data: URL, base64 of the file named `file`;        *)
(*   kind "http"      the public URL of the bucket path                    *)
(*                    <share>/<file>_<t>_<i> (t = -1: no time in the name);*)
(*   kind "voice:"    the placeholder 'voice:<i>';                         *)
(*   kind "undefined" no string (undefined, or a hole of an array).        *)
(* Times are days since the epoch.                                         *)
(***************************************************************************)
Str(kind, share, file, t, i) ==
    [kind |-> kind, share |-> share, file |-> file, t |-> t, i |-> i]

Undefined == Str("undefined", "", "", -1, 0)
Data(name) == Str("data", "", name, -1, 0)
Placeholder(index) == Str("voice:", "", "", -1, index)
Path(share, file, t, i) == [share |-> share, file |-> file, t |-> t, i |-> i]

\* supabase.storage.getPublicUrl(path).data.publicUrl
publicUrl(path) == Str("http", path.share, path.file, path.t, path.i)

truthy(str) == str.kind # "undefined"
startsWithHttp(str) == str.kind = "http"
startsWithVoice(str) == str.kind = "voice:"

\* base64ToBlob(base64) is not null: the string is a data: URL whose payload
\* atob accepts ("bad" names a payload it rejects)
isBlob(str) == str.kind = "data" /\ str.file # "bad"

\* uploadFileToSupabase(base64Data, path): {} for null, else {publicUrl};
\* netOk: the bucket accepts the upload
uploadFileToSupabase(base64Data, path, netOk) ==
    IF isBlob(base64Data) /\ netOk THEN {publicUrl(path)} ELSE {}

\* new Date(ms).toISOString() and new Date(iso).getTime(), in days, with
\* months of 30 days
toISOString(t) == [month |-> t \div 30, day |-> t % 30]
getTime(iso) == iso.month * 30 + iso.day

EXPIRY_DAYS == 7

VoiceStep(audioData, audioUrl) ==
    [type |-> "voice", audioData |-> audioData, audioUrl |-> audioUrl]
OtherStep(type) ==
    [type |-> type, audioData |-> Undefined, audioUrl |-> Undefined]

\* a scene config: its timeline, if any, and the steps of the timeline
SceneConfig(hasTimeline, steps) == [hasTimeline |-> hasTimeline, steps |-> steps]

\* JSON.parse(JSON.stringify(config)): a copy without the undefined fields
jsonClone(cfg) ==
    [hasTimeline |-> cfg.hasTimeline,
     steps |-> [i \in 1..Len(cfg.steps) |->
                  [type |-> cfg.steps[i].type,
                   audioData |-> cfg.steps[i].audioData,
                   audioUrl |-> cfg.steps[i].audioUrl]]]

hasAudio(step) ==
    step.type = "voice" /\ (truthy(step.audioData) \/ truthy(step.audioUrl))

SetMax(S) == CHOOSE m \in S : \A n \in S : n <= m

\* a voiceUrls without holes: the audio of the steps, pushed in step order
extractVoiceUrlsDense(cfg) ==
    LET steps == jsonClone(cfg).steps
        withAudio == {i \in 1..Len(steps) : cfg.hasTimeline /\ hasAudio(steps[i])}
        nth(k) == CHOOSE i \in withAudio :
                      Cardinality({j \in withAudio : j < i}) = k - 1
    IN [k \in 1..Cardinality(withAudio) |->
          IF truthy(steps[nth(k)].audioData) THEN steps[nth(k)].audioData
          ELSE steps[nth(k)].audioUrl]

\* extractVoiceDataFromConfig(config).voiceUrls: position i + 1 holds
\* voiceUrls[i]; the array has holes at the steps without audio
extractVoiceUrls(cfg) ==
    LET steps == jsonClone(cfg).steps
        withAudio == {i \in 1..Len(steps) : cfg.hasTimeline /\ hasAudio(steps[i])}
        length == IF withAudio = {} THEN 0 ELSE SetMax(withAudio)
    IN [i \in 1..length |->
          IF i \in withAudio
          THEN IF truthy(steps[i].audioData) THEN steps[i].audioData
               ELSE steps[i].audioUrl
          ELSE Undefined]

\* extractVoiceDataFromConfig(config).cleanConfig
extractCleanConfig(cfg) ==
    LET clone == jsonClone(cfg)
    IN [clone EXCEPT !.steps =
          [i \in 1..Len(clone.steps) |->
             IF cfg.hasTimeline /\ hasAudio(clone.steps[i])
             THEN [clone.steps[i] EXCEPT !.audioData = Undefined,
                                         !.audioUrl = Placeholder(i - 1)]
             ELSE clone.steps[i]]]

\* restoreVoiceDataToConfig(config, voiceUrls)
restoreVoiceDataToConfig(cfg, voiceUrls) ==
    LET restored == jsonClone(cfg)
    IN [restored EXCEPT !.steps =
          [i \in 1..Len(restored.steps) |->
             LET step == restored.steps[i]
                 idx == step.audioUrl.i
             IN IF /\ cfg.hasTimeline
                   /\ step.type = "voice"
                   /\ startsWithVoice(step.audioUrl)
                   /\ idx + 1 \in DOMAIN voiceUrls
                   /\ truthy(voiceUrls[idx + 1])
                THEN [step EXCEPT !.audioUrl = voiceUrls[idx + 1]]
                ELSE step]]

(***************************************************************************)
(* Specifications: one per component; the other components stay idle.      *)
(***************************************************************************)
\* TimelineEditor.tsx 69-74: safeConfig of a card without a storyline
\* what the callers of the model pass in
GeneratedIds == {"s1"}                   \* generateId()
GeneratedTokens == {"t1"}                \* generateToken()
ShareIds == {"s1"}
Tokens == {"t1", "t2"}
Messages == {"merry"}                   \* of a new share
UpdateMessages == {"happy"}              \* of an edited share
PhotoInputs == {<<Data("A")>>, <<Data("bad"), Data("A")>>}
ConfigInputs ==
    {SceneConfig(FALSE, <<>>),
     SceneConfig(TRUE, <<VoiceStep(Data("V"), Undefined)>>),
     SceneConfig(TRUE, <<OtherStep("intro"), VoiceStep(Data("V"), Undefined)>>)}

\* error texts: the string of line 720, and stand-ins for the messages of
\* the errors that Supabase and the engine raise
NO_PERMISSION == "no permission to edit"
NOT_CONFIGURED == "Supabase environment not configured"
DB_ERROR == "database error"
TYPE_ERROR == "TypeError: cannot read properties of undefined"

Return(success, error, data) == [success |-> success, error |-> error, data |-> data]
Call(op, shareId, editToken) ==
    [op |-> op, shareId |-> shareId, editToken |-> editToken]

\* the array that results from push(url) for every upload that returned one
RECURSIVE pushAll(_)
pushAll(results) ==
    IF results = <<>> THEN <<>>
    ELSE LET rest == pushAll(Tail(results))
         IN IF Head(results) = {} THEN rest
            ELSE <<CHOOSE url \in Head(results) : TRUE>> \o rest

\* the bucket paths behind a list of upload results
pathsOf(results) ==
    {Path(url.share, url.file, url.t, url.i) :
        url \in UNION {results[i] : i \in DOMAIN results}}

ShareInit ==
    /\ supabaseConfigured \in BOOLEAN
    /\ now = 27
    /\ shares = <<>>
    /\ localShare = {}
    /\ uploaded = {}
    /\ call = [op |-> "none", shareId |-> "", editToken |-> ""]
    /\ result = Return(FALSE, "", {})

NoCall == [op |-> "none", shareId |-> "", editToken |-> ""]

\* the days on which calls are made: the first two, and those from the
\* seventh day after the first on
Instants == {27, 28} \cup 34..MaxClock

\* time passes between two calls; what the last call returned is history
AdvanceClock ==
    /\ \E d \in Instants : d > now
    /\ now' = CHOOSE d \in Instants : d > now /\ \A e \in Instants : e > now => d <= e
    /\ call' = NoCall
    /\ result' = Return(FALSE, "", {})
    /\ uploaded' = {}
    /\ UNCHANGED <<supabaseConfigured, shares, localShare>>

\* uploadShare(photos, config, message); fault: the request of the call that
\* Supabase answers with an error, if any
uploadShare ==
    \E photos \in PhotoInputs, cfg \in ConfigInputs, message \in Messages,
       shareId \in GeneratedIds, editToken \in GeneratedTokens,
       fault \in {"none", "storage", "insert"} :
        LET dbOk == fault # "insert"
            netOk == fault # "storage"
            expiresAt == now + EXPIRY_DAYS
            voiceBase64s == extractVoiceUrls(cfg)
            cleanConfig == extractCleanConfig(cfg)
            voiceResults ==
                [i \in DOMAIN voiceBase64s |->
                    IF truthy(voiceBase64s[i])
                    THEN uploadFileToSupabase(voiceBase64s[i],
                             Path(shareId, "voice", -1, i - 1),
                             netOk /\ supabaseConfigured)
                    ELSE {}]
            photoResults ==
                [i \in DOMAIN photos |->
                    uploadFileToSupabase(photos[i],
                        Path(shareId, "photo", -1, i - 1),
                        netOk /\ supabaseConfigured)]
            row == [id |-> shareId,
                    edit_token |-> editToken,
                    config |-> cleanConfig,
                    message |-> message,
                    photos |-> pushAll(photoResults),
                    voice_urls |-> pushAll(voiceResults),
                    created_at |-> toISOString(now),
                    updated_at |-> toISOString(now),
                    expires_at |-> toISOString(expiresAt)]
        IN /\ call' = Call("uploadShare", shareId, editToken)
           /\ UNCHANGED <<supabaseConfigured, now>>
           /\ IF ~supabaseConfigured
              THEN /\ result' = Return(FALSE, NOT_CONFIGURED, {})
                   /\ uploaded' = {}
                   /\ UNCHANGED <<shares, localShare>>
              ELSE /\ uploaded' = pathsOf(voiceResults) \cup pathsOf(photoResults)
                   /\ IF dbOk /\ shareId \notin DOMAIN shares
                      THEN /\ shares' = (shareId :> row) @@ shares
                           /\ localShare' = {[shareId |-> shareId,
                                              editToken |-> editToken,
                                              createdAt |-> now]}
                           /\ result' = Return(TRUE, "",
                                  {[shareId |-> shareId, editToken |-> editToken]})
                      ELSE /\ result' = Return(FALSE, DB_ERROR, {})
                           /\ UNCHANGED <<shares, localShare>>

\* line 679 of getShare: the share has expired at time t
isExpired(expiresAt, t) == expiresAt < t

\* getShare(shareId)
getShare ==
    \E shareId \in ShareIds, fault \in {"none", "select"} :
        LET dbOk == fault # "select"
            found == dbOk /\ supabaseConfigured /\ shareId \in DOMAIN shares
            data == shares[shareId]
            expiresAt == getTime(data.expires_at)
            cfg == IF Len(data.voice_urls) > 0
                   THEN restoreVoiceDataToConfig(data.config, data.voice_urls)
                   ELSE data.config
        IN /\ call' = Call("getShare", shareId, "")
           /\ uploaded' = {}
           /\ UNCHANGED <<supabaseConfigured, now, shares, localShare>>
           /\ IF ~found THEN result' = Return(FALSE, "", {})
              ELSE IF isExpired(expiresAt, now) THEN result' = Return(FALSE, "", {})
              ELSE result' = Return(TRUE, "",
                       {[id |-> data.id,
                         editToken |-> data.edit_token,
                         photos |-> data.photos,
                         config |-> cfg,
                         message |-> data.message,
                         createdAt |-> getTime(data.created_at),
                         updatedAt |-> getTime(data.updated_at),
                         expiresAt |-> expiresAt,
                         voiceUrls |-> data.voice_urls]})

\* what the edit page holds for a share: what getShare returned for it, or
\* something new
UpdatePhotoInputs(shareId) ==
    {<<Data("B")>>} \cup
    (IF shareId \in DOMAIN shares THEN {shares[shareId].photos} ELSE {})
UpdateConfigInputs(shareId) ==
    {SceneConfig(TRUE, <<VoiceStep(Data("W"), Undefined)>>)} \cup
    (IF shareId \in DOMAIN shares
     THEN {restoreVoiceDataToConfig(shares[shareId].config,
                                    shares[shareId].voice_urls)}
     ELSE {})

\* line 719 of updateShare, negated: existing is {} (no row, or the select
\* failed) or {the row's edit_token}
authorizedIfExists(existing, editToken) == existing # {}

authorized(existing, editToken) == existing # {} /\ editToken \in existing

\* the row after the update of lines 748-754
updatedRowRefreshing(row, cleanConfig, message, photos, voice_urls, t) ==
    [row EXCEPT !.config = cleanConfig, !.message = message,
                !.photos = photos, !.voice_urls = voice_urls,
                !.updated_at = toISOString(t),
                !.expires_at = toISOString(t + EXPIRY_DAYS)]

updatedRow(row, cleanConfig, message, photos, voice_urls, t) ==
    [row EXCEPT !.config = cleanConfig, !.message = message,
                !.photos = photos, !.voice_urls = voice_urls,
                !.updated_at = toISOString(t)]

\* updateShare(shareId, editToken, photos, config, message)
updateShare ==
    \E shareId \in ShareIds, editToken \in Tokens, message \in UpdateMessages,
       fault \in {"none", "select", "storage", "update"} :
    \E photos \in UpdatePhotoInputs(shareId), cfg \in UpdateConfigInputs(shareId) :
        LET selOk == fault # "select"
            updOk == fault # "update"
            netOk == fault # "storage"
            existing == IF selOk /\ supabaseConfigured /\ shareId \in DOMAIN shares
                        THEN {shares[shareId].edit_token} ELSE {}
            photoResults ==
                [i \in DOMAIN photos |->
                    IF startsWithHttp(photos[i]) THEN {photos[i]}
                    ELSE uploadFileToSupabase(photos[i],
                             Path(shareId, "photo", now, i - 1), netOk)]
            photoUploads ==
                [i \in DOMAIN photos |->
                    IF startsWithHttp(photos[i]) THEN {} ELSE photoResults[i]]
            voiceData == extractVoiceUrls(cfg)
            cleanConfig == extractCleanConfig(cfg)
            \* voiceData[i].startsWith throws at the first hole of the array
            holes == {i \in DOMAIN voiceData : ~truthy(voiceData[i])}
            reached == {i \in DOMAIN voiceData : \A h \in holes : i < h}
            voiceResults ==
                [i \in 1..Cardinality(reached) |->
                    IF startsWithHttp(voiceData[i]) THEN {voiceData[i]}
                    ELSE uploadFileToSupabase(voiceData[i],
                             Path(shareId, "voice", now, i - 1), netOk)]
            voiceUploads ==
                [i \in 1..Cardinality(reached) |->
                    IF startsWithHttp(voiceData[i]) THEN {} ELSE voiceResults[i]]
        IN /\ call' = Call("updateShare", shareId, editToken)
           /\ UNCHANGED <<supabaseConfigured, now, localShare>>
           /\ IF ~authorized(existing, editToken)
              THEN /\ result' = Return(FALSE, NO_PERMISSION, {})
                   /\ uploaded' = {}
                   /\ UNCHANGED shares
              ELSE /\ uploaded' = pathsOf(photoUploads) \cup pathsOf(voiceUploads)
                   /\ IF holes # {}
                      THEN /\ result' = Return(FALSE, TYPE_ERROR, {})
                           /\ UNCHANGED shares
                      ELSE IF ~updOk
                      THEN /\ result' = Return(FALSE, DB_ERROR, {})
                           /\ UNCHANGED shares
                      ELSE /\ result' = Return(TRUE, "", {})
                           /\ shares' = [shares EXCEPT ![shareId] =
                                  updatedRow(shares[shareId], cleanConfig, message,
                                             pushAll(photoResults),
                                             pushAll(voiceResults), now)]

ShareNext ==
    \/ AdvanceClock /\ UNCHANGED <<tlVars, gVars, vcVars, ptVars>>
    \/ uploadShare /\ UNCHANGED <<tlVars, gVars, vcVars, ptVars>>
    \/ getShare /\ UNCHANGED <<tlVars, gVars, vcVars, ptVars>>
    \/ updateShare /\ UNCHANGED <<tlVars, gVars, vcVars, ptVars>>

(***************************************************************************)
(* useTimeline.ts 858-890: a caller that extracts the voice data of a      *)
(* config and restores it from what it got, as the edit flow does.         *)
(***************************************************************************)
VoiceStepPool ==
    {OtherStep("intro"),
     VoiceStep(Undefined, Undefined),
     VoiceStep(Data("V"), Undefined),
     VoiceStep(Undefined, publicUrl(Path("s1", "voice", -1, 0))),
     VoiceStep(Data("V"), Placeholder(0)),
     VoiceStep(Undefined, Placeholder(1))}

VoiceConfigs ==
    {SceneConfig(FALSE, <<>>)}
        \cup {SceneConfig(TRUE, steps) : steps \in SeqsUpTo(VoiceStepPool, MaxVoiceSteps)}

VoiceInit ==
    /\ voiceConfig \in VoiceConfigs
    /\ voiceExtracted = {}
    /\ voiceRestored = {}

\* const {voiceUrls, cleanConfig} = extractVoiceDataFromConfig(config); the
\* function writes to the copy it made at line 860 only
ExtractVoice ==
    /\ voiceExtracted = {}
    /\ voiceExtracted' = {[voiceUrls |-> extractVoiceUrls(voiceConfig),
                      cleanConfig |-> extractCleanConfig(voiceConfig)]}
    /\ UNCHANGED <<voiceConfig, voiceRestored>>

\* restoreVoiceDataToConfig(cleanConfig, voiceUrls); the function writes to
\* the copy it made at line 876 only
RestoreVoice ==
    /\ voiceExtracted # {}
    /\ voiceRestored = {}
    /\ voiceRestored' = {restoreVoiceDataToConfig(e.cleanConfig, e.voiceUrls) :
                        e \in voiceExtracted}
    /\ UNCHANGED <<voiceConfig, voiceExtracted>>

\* the caller goes on with the config it got back
ReuseVoice ==
    /\ voiceRestored # {}
    /\ voiceConfig' \in voiceRestored
    /\ voiceExtracted' = {}
    /\ voiceRestored' = {}

VoiceNext ==
    \/ ExtractVoice /\ UNCHANGED <<tlVars, gVars, shVars, ptVars>>
    \/ RestoreVoice /\ UNCHANGED <<tlVars, gVars, shVars, ptVars>>
    \/ ReuseVoice /\ UNCHANGED <<tlVars, gVars, shVars, ptVars>>

\* no voice helper has been called
VoiceIdle ==
    /\ voiceConfig = SceneConfig(FALSE, <<>>)
    /\ voiceExtracted = {}
    /\ voiceRestored = {}

(***************************************************************************)
(* part_000, FairyLights.tsx, GiftPile.tsx, PhotoOrnaments.tsx: the        *)
(* transition between the scattered and the gathered scene.  Progress,     *)
(* gather delays and interpolation parameters are thousandths; a frame's   *)
(* delta is in milliseconds and the speed prop in tenths.  GiftPile and    *)
(* PhotoOrnaments run the frame code of FairyLights.                       *)
(***************************************************************************)
Thousandths(x) == x * 1000
One == Thousandths(1)

clamp(x, lo, hi) == Max(lo, Min(hi, x))

\* 1 / duration, in tenths: Math.max(0.3, Math.min(3, speed))
rate(s) == Max(3, Min(30, s))

\* delta / duration
linearStep(d, s) == (d * rate(s)) \div 10

\* the progress after a frame that does not stop at the target
stepTowardUnclamped(targetProgress, currentProgress, step) ==
    IF targetProgress > currentProgress THEN currentProgress + step
    ELSE IF targetProgress < currentProgress THEN currentProgress - step
    ELSE currentProgress

\* the progress after a frame of Foliage or SpiralRibbon
stepToward(targetProgress, currentProgress, step) ==
    IF targetProgress > currentProgress
    THEN Min(targetProgress, currentProgress + step)
    ELSE IF targetProgress < currentProgress
    THEN Max(targetProgress, currentProgress - step)
    ELSE currentProgress

targetProgressOf(st) == IF st = "FORMED" THEN One ELSE 0

cube(t) == (t * t * t) \div (One * One)

\* easingFunctions[easing](t)
ease(e, t) ==
    CASE e = "linear" -> t
      [] e = "easeIn" -> cube(t)
      [] e = "easeOut" -> One - cube(One - t)
      [] e = "easeInOut" ->
            IF 2 * t < One THEN 4 * cube(t)
            ELSE One - cube(2 * One - 2 * t) \div 2

\* the vertex shader of Foliage: t for a particle of gather delay gd
foliageParam(e, progress, gd) ==
    LET adjustedT ==
            IF gd < 1 THEN progress
            ELSE clamp(((progress - gd \div 2) * One) \div (One - gd \div 2 + 1),
                       0, One)
    IN ease(e, adjustedT)

\* Math.max(0.5, Math.min(3, speed)) * 1.5, in hundredths
animSpeed(s) == Max(5, Min(30, s)) * 15

\* truncation of a quotient toward zero
quot(a, b) == IF a >= 0 THEN a \div b ELSE -((-a) \div b)

\* progressRef.current += (targetProgress - progressRef.current) * delta * animSpeed
smoothStep(targetProgress, currentProgress, d, s) ==
    currentProgress
        + quot((targetProgress - currentProgress) * d * animSpeed(s), 100 * 1000)

\* directionRef.current after lines 138-139 of FairyLights
directionAfter(targetProgress, currentProgress, direction) ==
    IF targetProgress > currentProgress THEN 1
    ELSE IF targetProgress < currentProgress THEN -1
    ELSE direction

\* elementT of FairyLights, GiftPile and PhotoOrnaments
elementParam(e, direction, rawT, gd) ==
    IF direction > 0
    THEN LET delayedProgress ==
                 clamp(quot((rawT - gd) * One, One - gd + 1), 0, One)
         IN ease(e, delayedProgress)
    ELSE LET reverseDelay ==
                 clamp(quot((rawT - (One - gd - 300)) * One, gd + 300 + 1), 0, One)
         IN One - ease(e, One - reverseDelay)

\* the props and the frames of the model
Speeds == {1, 10, 50}
Easings == {"linear", "easeInOut"}
Deltas == {0, 250}
GatherDelays == {0, 350, 700}

ParticleInit ==
    /\ sceneState = "FORMED"
    /\ speed \in Speeds
    /\ easing \in Easings
    /\ delta = 0
    /\ uProgress = 0
    /\ ribbonProgress = 0
    /\ lightsProgress = 0
    /\ directionRef = 1
    /\ foliageT = [gd \in GatherDelays |-> 0]
    /\ lightsT = [gd \in GatherDelays |-> 0]

\* setSceneState(s => s === 'CHAOS' ? 'FORMED' : 'CHAOS')
toggleSceneState ==
    /\ sceneState' = IF sceneState = "CHAOS" THEN "FORMED" ELSE "CHAOS"
    /\ UNCHANGED <<speed, easing, delta, uProgress, ribbonProgress,
                   lightsProgress, directionRef, foliageT, lightsT>>

\* one frame: the useFrame callbacks of Foliage, SpiralRibbon and FairyLights
useFrame ==
    \E d \in Deltas :
        LET targetProgress == targetProgressOf(sceneState)
            step == linearStep(d, speed)
            direction == directionAfter(targetProgress, lightsProgress, directionRef)
            progress == smoothStep(targetProgress, lightsProgress, d, speed)
            rawT == clamp(progress, 0, One)
        IN /\ delta' = d
           /\ uProgress' = stepToward(targetProgress, uProgress, step)
           /\ ribbonProgress' = stepToward(targetProgress, ribbonProgress, step)
           /\ foliageT' = [gd \in GatherDelays |-> foliageParam(easing, uProgress', gd)]
           /\ directionRef' = direction
           /\ lightsProgress' = progress
           /\ lightsT' = [gd \in GatherDelays |->
                            elementParam(easing, direction, rawT, gd)]
           /\ UNCHANGED <<sceneState, speed, easing>>

ParticleNext ==
    \/ toggleSceneState /\ UNCHANGED <<tlVars, gVars, shVars, vcVars>>
    \/ useFrame /\ UNCHANGED <<tlVars, gVars, shVars, vcVars>>

\* the scene before its first frame
ParticleIdle ==
    /\ sceneState = "FORMED"
    /\ speed = 10
    /\ easing = "easeInOut"
    /\ delta = 0
    /\ uProgress = 0
    /\ ribbonProgress = 0
    /\ lightsProgress = 0
    /\ directionRef = 1
    /\ foliageT = [gd \in GatherDelays |-> 0]
    /\ lightsT = [gd \in GatherDelays |-> 0]

\* no share call has been made
ShareIdle ==
    /\ supabaseConfigured = TRUE
    /\ now = 27
    /\ shares = <<>>
    /\ localShare = {}
    /\ uploaded = {}
    /\ call = [op |-> "none", shareId |-> "", editToken |-> ""]
    /\ result = Return(FALSE, "", {})

TimelineIdle ==
    /\ config = [enabled |-> FALSE, autoPlay |-> TRUE, loop |-> FALSE,
                 steps |-> <<>>]
    /\ totalPhotos = 0
    /\ numTexts = 1
    /\ mounted = FALSE
    /\ state = InitialState
    /\ timerRef = "null"
    /\ progressRef = "null"
    /\ elapsed = 0
    /\ photoCounterRef = 0
    /\ photoIndex = 0
    /\ heartPhotoIndex = {}
    /\ tlEvents = {}

Init == TimelineInit /\ GestureInit /\ ShareIdle /\ VoiceIdle /\ ParticleIdle
Next == TimelineNext
Spec == Init /\ [][Next]_vars

GestureSpecInit ==
    TimelineIdle /\ GestureInit /\ ShareIdle /\ VoiceIdle /\ ParticleIdle
GestureSpec == GestureSpecInit /\ [][GestureNext]_vars

ShareSpecInit ==
    TimelineIdle /\ GestureInit /\ ShareInit /\ VoiceIdle /\ ParticleIdle
ShareSpec == ShareSpecInit /\ [][ShareNext]_vars

VoiceSpecInit ==
    TimelineIdle /\ GestureInit /\ ShareIdle /\ VoiceInit /\ ParticleIdle
VoiceSpec == VoiceSpecInit /\ [][VoiceNext]_vars

ParticleSpecInit ==
    TimelineIdle /\ GestureInit /\ ShareIdle /\ VoiceIdle /\ ParticleInit
ParticleSpec == ParticleSpecInit /\ [][ParticleNext]_vars


(***************************************************************************)
(* Claims about the timeline.  In Spec nothing but play() and the timers   *)
(* of the hook acts, so every behaviour is a playback left to itself.      *)
(***************************************************************************)
NumSteps == Len(config.steps)

\* the step that is current ends in this transition: its interval is cleared
\* after reading a progress of 1
StepEnds == progressRef = "active" /\ progressRef' = "null"

\* the progress the interval read when it ended the current step
EndProgress == progressOf(elapsed', getStepDuration(state.currentStep))

\* playback starts (play or autoplay) in this transition
Starts == ~state.isPlaying /\ state'.isPlaying

\* playback goes on with the step after the current one
GoesOn ==
    /\ state.currentStep.type # "tree"
    /\ state.currentStepIndex + 1 < NumSteps
    /\ state'.isPlaying
    /\ state'.currentStepIndex = state.currentStepIndex + 1
    /\ state'.currentStep = StepAt(state.currentStepIndex + 1)

\* playback stops at the current step, a tree
StopsAtTree ==
    /\ state.currentStep.type = "tree"
    /\ ~state'.isPlaying
    /\ state'.currentStepIndex = state.currentStepIndex

\* playback stops after the last step, which is no tree
StopsAfterLast ==
    /\ state.currentStep.type # "tree"
    /\ state.currentStepIndex = NumSteps - 1
    /\ ~state'.isPlaying
    /\ state'.currentStepIndex = -1

\* playback starts again from step 0 after a tree
Restarts ==
    /\ state.currentStep.type = "tree"
    /\ state'.isPlaying
    /\ state'.currentStepIndex = 0
    /\ state'.currentStep = StepAt(0)

\* the current step changes only when playback starts, at step 0, or when
\* the current step ends
OnlyTimersMove ==
    /\ Starts => state'.currentStepIndex = 0 /\ state'.progress = 0
    /\ (~Starts /\ ~StepEnds) =>
          /\ state'.currentStepIndex = state.currentStepIndex
          /\ state'.isPlaying = state.isPlaying

\* C1 as stated: the steps are played in order, 0, 1, 2, ...; the step
\* after the current one starts only when the progress of the current one
\* has reached 1; none is skipped or repeated; playback stops at the first
\* tree step, or after the last step.
C1_PlaysOnceInOrder ==
    [][/\ OnlyTimersMove
       /\ StepEnds => /\ EndProgress = 100
                      /\ (GoesOn \/ StopsAtTree \/ StopsAfterLast)]_vars

\* C1 as amended: the same, but with config.loop set the end of the first
\* tree step starts playback again from step 0 instead of stopping it.
C1_PlaysInOrder ==
    [][/\ OnlyTimersMove
       /\ StepEnds => /\ EndProgress = 100
                      /\ \/ GoesOn
                         \/ StopsAtTree /\ ~config.loop
                         \/ Restarts /\ config.loop
                         \/ StopsAfterLast]_vars

\* C1: the second of two steps is being played
C1_Witness ==
    /\ NumSteps = 2
    /\ state.isPlaying
    /\ state.currentStepIndex = 1
    /\ progressRef = "active"
    /\ state.progress > 0

TreeSteps == {i \in 0..(NumSteps - 1) : StepAt(i).type = "tree"}

C3_LoopRestarts ==
    [][(config.loop /\ StepEnds /\ state.currentStepIndex = NumSteps - 1) =>
          /\ state'.isPlaying
          /\ state'.currentStepIndex = 0
          /\ "onComplete" \notin tlEvents']_vars

\* the steps whose photo is chosen automatically
isAutoStep(step) ==
    /\ step.type = "photo" \/ (step.type = "heart" /\ step.showPhoto)
    /\ step.photoIndex = -1

\* the number of such steps before the current one
AutoStepsBefore ==
    Cardinality({i \in 0..(state.currentStepIndex - 1) : isAutoStep(StepAt(i))})

\* C4 as stated: with totalPhotos >= 1, while the k-th step with
\* photoIndex -1 is current, every render exposes the photo k mod
\* totalPhotos.
C4_AutoPhotosInOrder ==
    (totalPhotos >= 1 /\ isAutoStep(state.currentStep)) =>
        LET k == AutoStepsBefore
        IN IF state.currentStep.type = "photo"
           THEN photoIndex = k % totalPhotos
           ELSE heartPhotoIndex = {k % totalPhotos}

(***************************************************************************)
(* Claims about the gesture loop; every step of GestureSpec is one frame.  *)
(***************************************************************************)
\* the callback of the gesture of this frame fires in this frame
CallbackFires ==
    IF gesture' = "Pinch"
    THEN cooledDown(pinchCooldownRef) = 0 => "onPinch" \in gEvents'
    ELSE "onGesture" \in gEvents'

\* C5 as stated: when two consecutive frames with a hand give the same
\* gesture, not None and of confidence above 0.6, the callback of the
\* gesture fires in the second of them.
C5_StableAfterTwoFrames ==
    [][(/\ handPresent /\ handPresent'
        /\ gesture' = gesture
        /\ gesture' # "None"
        /\ confidence' > 60) => CallbackFires]_vars

\* the inputs of the claims about recognizeGesture, read off the hand of
\* the last frame
lastLandmarks == HandOf(hand)
thumbUpOnly ==
    /\ handPresent
    /\ ~isPinchingOf(lastLandmarks)
    /\ isThumbExtended(lastLandmarks)
    /\ ~indexExtendedOf(lastLandmarks) /\ ~middleExtendedOf(lastLandmarks)
    /\ ~ringExtendedOf(lastLandmarks) /\ ~pinkyExtendedOf(lastLandmarks)

\* C6 as stated: a hand that is not pinching, with the thumb extended and
\* no other finger extended, is Thumb_Up when the thumb tip is more than
\* 0.05 above the wrist and Thumb_Down when it is more than 0.05 below.
C6_ThumbUpDown ==
    thumbUpOnly =>
        /\ lastLandmarks[THUMB_TIP].y < lastLandmarks[WRIST].y - 5
              => gesture = "Thumb_Up"
        /\ lastLandmarks[THUMB_TIP].y > lastLandmarks[WRIST].y + 5
              => gesture = "Thumb_Down"

\* C7 as stated: a hand that is not pinching, with the index finger
\* extended and middle, ring and pinky not, is Pointing_Up whatever the
\* thumb does.
C7_PointingUpAnyThumb ==
    (/\ handPresent
     /\ ~isPinchingOf(lastLandmarks)
     /\ indexExtendedOf(lastLandmarks)
     /\ ~middleExtendedOf(lastLandmarks)
     /\ ~ringExtendedOf(lastLandmarks)
     /\ ~pinkyExtendedOf(lastLandmarks)) => gesture = "Pointing_Up"

\* C8 as stated: a hand that is not pinching, with thumb, index and pinky
\* extended and the middle finger not, is ILoveYou whether or not the ring
\* finger is extended.
C8_ILoveYouAnyRing ==
    (/\ handPresent
     /\ ~isPinchingOf(lastLandmarks)
     /\ isThumbExtended(lastLandmarks)
     /\ indexExtendedOf(lastLandmarks)
     /\ pinkyExtendedOf(lastLandmarks)
     /\ ~middleExtendedOf(lastLandmarks)) => gesture = "ILoveYou"

(***************************************************************************)
(* Claims about sharing, checked in ShareSpec.                             *)
(***************************************************************************)

\* the last call was updateShare with an id that `table` does not hold or
\* with a token that is not the one of the row
UnauthorizedUpdate(c, table) ==
    /\ c.op = "updateShare"
    /\ \/ c.shareId \notin DOMAIN table
       \/ table[c.shareId].edit_token # c.editToken

\* C9: updateShare called with a shareId that does not exist or whose
\* edit_token differs from the editToken argument returns
\* {success: false, error: NO_PERMISSION}, uploads nothing and leaves the
\* table untouched.
C9_UnauthorizedUpdateRejected ==
    [][UnauthorizedUpdate(call', shares) =>
          /\ result' = Return(FALSE, NO_PERMISSION, {})
          /\ uploaded' = {}
          /\ shares' = shares]_vars

\* C9, its case: an existing share, the wrong token, the call refused
C9_Witness ==
    /\ call.op = "updateShare"
    /\ call.shareId \in DOMAIN shares
    /\ shares[call.shareId].edit_token # call.editToken
    /\ result = Return(FALSE, NO_PERMISSION, {})
    /\ uploaded = {}

\* C10: getShare returns null for a share created at time t whenever it is
\* called later than t + 7 days, whatever updateShare calls were made in
\* between.  The time of creation is the one uploadShare left in
\* localStorage.
C10_ExpiresAfterSevenDays ==
    \A info \in localShare :
        (call.op = "getShare" /\ call.shareId = info.shareId
            /\ now > info.createdAt + 7)
        => result.data = {}

\* C10, its case: a share that was updated after its creation is asked for
\* on the eighth day and not returned
C10_Witness ==
    \E info \in localShare :
        /\ call.op = "getShare"
        /\ call.shareId = info.shareId
        /\ now > info.createdAt + 7
        /\ result.data = {}
        /\ getTime(shares[info.shareId].updated_at) > info.createdAt

\* the steps of a stored config that carried audio: extractVoiceDataFromConfig
\* left a placeholder in them
AudioSteps(cfg) ==
    {i \in DOMAIN cfg.steps :
        cfg.hasTimeline /\ cfg.steps[i].type = "voice"
            /\ startsWithVoice(cfg.steps[i].audioUrl)}

\* the row holds the voice files as uploadShare stored them, one uploaded
\* file for every step with audio
VoiceUploadedInFull(row) ==
    /\ Len(row.voice_urls) = Cardinality(AudioSteps(row.config))
    /\ \A k \in DOMAIN row.voice_urls : row.voice_urls[k].t = -1

\* C11 as stated: after an uploadShare whose uploads all succeeded, the
\* config that getShare returns has, in every voice step that carried audio,
\* the public URL of the file uploaded for that step (voice_<index of the
\* step>.webm), wherever the step stands in timeline.steps.
C11_VoiceSurvivesSharing ==
    (/\ call.op = "getShare"
     /\ result.data # {}
     /\ VoiceUploadedInFull(shares[call.shareId])) =>
        \A data \in result.data :
            \A i \in AudioSteps(shares[call.shareId].config) :
                data.config.steps[i].audioUrl
                    = publicUrl(Path(call.shareId, "voice", -1, i - 1))

(***************************************************************************)
(* Claims about the voice helpers, checked in VoiceSpec.                   *)
(***************************************************************************)
\* what C12 expects back: the config, with every voice step that had
\* audioData or audioUrl holding the audio in audioUrl and no audioData
RoundTripOf(cfg) ==
    [cfg EXCEPT !.steps =
        [i \in DOMAIN cfg.steps |->
            LET step == cfg.steps[i]
            IN IF cfg.hasTimeline /\ step.type = "voice"
                    /\ (truthy(step.audioData) \/ truthy(step.audioUrl))
               THEN [step EXCEPT
                       !.audioUrl = IF truthy(step.audioData)
                                    THEN step.audioData ELSE step.audioUrl,
                       !.audioData = Undefined]
               ELSE step]]

\* C12: restoreVoiceDataToConfig(cleanConfig, voiceUrls), with cleanConfig
\* and voiceUrls from extractVoiceDataFromConfig(config), is config with the
\* audio of every voice step in audioUrl and no audioData; neither call
\* changes the config object passed in.
C12_ExtractRestoreRoundTrip ==
    [][voiceExtracted' # {} =>
          /\ voiceConfig' = voiceConfig
          /\ voiceRestored' # {} => voiceRestored' = {RoundTripOf(voiceConfig)}]_vars

\* C12, its case: a config whose voice step with audio follows a step
\* without (voiceUrls has a hole) has been extracted and restored
C12_Witness ==
    /\ voiceRestored = {RoundTripOf(voiceConfig)}
    /\ Len(voiceConfig.steps) = 2
    /\ ~hasAudio(voiceConfig.steps[1])
    /\ hasAudio(voiceConfig.steps[2])
    /\ truthy(voiceConfig.steps[2].audioData)

(***************************************************************************)
(* Claims about the particle components, checked in ParticleSpec.  A step  *)
(* that leaves sceneState alone is a frame.                                *)
(***************************************************************************)
\* `after` is `before` moved toward `target` by min(step, |target - before|)
MovedToward(before, after, target, step) ==
    LET dist == IF target >= before THEN target - before ELSE before - target
        move == IF step <= dist THEN step ELSE dist
    IN after = (IF target >= before THEN before + move ELSE before - move)

C14_ContinuousOnInterrupt ==
    [][(/\ sceneState' = sceneState
        /\ directionRef' # directionRef
        /\ lightsProgress > 0 /\ lightsProgress < One
        /\ lightsProgress' > 0 /\ lightsProgress' < One
        /\ uProgress > 0 /\ uProgress < One) =>
          \A gd \in GatherDelays :
              /\ foliageT'[gd] = foliageParam(easing, uProgress', gd)
              /\ lightsT'[gd] =
                    elementParam(easing, directionRef, lightsProgress', gd)]_vars

====
